---- MODULE Spec2Model ----
\* A model of libflatpak_query.py: AppStreamPackage.search and the
\* AppstreamSearcher index (add_installation, add_remote,
\* _load_appstream_metadata, search_flatpak_repo, search_flatpak).
\*
\* Strings that the program only compares for equality (remote names) are TLA+
\* strings.  Strings that the program lower-cases and searches (name, id,
\* summary, keyword) are sequences of one-character strings.  A formatted ref
\* "kind/name/arch/branch" is the sequence of its four parts.
EXTENDS Integers, Sequences, FiniteSets, TLC

VARIABLES
    remotes,         \* self.remotes: insertion-ordered dict, as a sequence of [name, packages]
    installed,       \* self.installed: list of formatted refs (duplicates kept)
    raised,          \* exception that ended the last call ("" when it returned)
    search_results,  \* list returned by the last search_flatpak call (references to packages)
    found,           \* Match returned by the last direct AppStreamPackage.search call
    lastCall,        \* history variable: the last call and its arguments
    loads,           \* history variable: the _load_appstream_metadata runs of the last call
    seen,            \* history variable: formatted app refs of every installation passed in so far
    history,         \* history variable: the searches that scanned packages, oldest first
    calls            \* number of calls made to the searcher

vars == <<remotes, installed, raised, search_results, found, lastCall, loads, seen, history, calls>>

----------------------------------------------------------------------------
\* Bounds of the model.

MaxCalls == 3
MaxFieldLen == 2
MaxKeywordLen == 1

----------------------------------------------------------------------------
\* class Match(IntEnum)

NAME == 1
ID == 2
SUMMARY == 3
NONE == 4

\* Python's None, as the default of search_flatpak's repo_name.
None == "<None>"

\* bool(x) of an optional string: None and "" are falsy.
Truthy(x) == x # None /\ x # ""

----------------------------------------------------------------------------
\* str.lower and the substring test `k in s`.

UpperCase == <<"A","B","C","D","E","F","G","H","I","J","K","L","M",
               "N","O","P","Q","R","S","T","U","V","W","X","Y","Z">>
LowerCase == <<"a","b","c","d","e","f","g","h","i","j","k","l","m",
               "n","o","p","q","r","s","t","u","v","w","x","y","z">>

\* The lower-case letter of each upper-case letter.
ToLower ==
    [c \in {UpperCase[i] : i \in DOMAIN UpperCase} |->
        LowerCase[CHOOSE i \in DOMAIN UpperCase : UpperCase[i] = c]]

LowerChar(c) == IF c \in DOMAIN ToLower THEN ToLower[c] ELSE c

lower(s) == [i \in DOMAIN s |-> LowerChar(s[i])]

\* k in s
In(k, s) == \E i \in 0..(Len(s) - Len(k)) : SubSeq(s, i + 1, i + Len(k)) = k

----------------------------------------------------------------------------
\* AppStreamPackage

\* AppStreamPackage.__init__: the fields the index and the search read.
AppStreamPackage(comp, remote) ==
    [component |-> comp,
     repo_name |-> remote.name,
     flatpak_bundle |-> comp.bundle,
     match |-> NONE]

\* A plausible slip: the id and summary tests in the wrong order.
search_summary_first(package, keyword) ==
    IF In(keyword, lower(package.component.name)) THEN NAME
    ELSE IF In(keyword, lower(package.component.summary)) THEN SUMMARY
    ELSE IF In(keyword, lower(package.component.id)) THEN ID
    ELSE NONE

\* AppStreamPackage.search
search(package, keyword) ==
    IF In(keyword, lower(package.component.name)) THEN NAME
    ELSE IF In(keyword, lower(package.component.id)) THEN ID
    ELSE IF In(keyword, lower(package.component.summary)) THEN SUMMARY
    ELSE NONE

----------------------------------------------------------------------------
\* The insertion-ordered dict self.remotes.

Keys(d) == {d[i].name : i \in DOMAIN d}
KeyIndex(d, k) == CHOOSE i \in DOMAIN d : d[i].name = k
Lookup(d, k) == d[KeyIndex(d, k)].packages
Range(s) == {s[i] : i \in DOMAIN s}
HasKey(d, k) == k \in Keys(d)

\* d[k] = v on an insertion-ordered dict: replace in place, or append a new key.
Put(d, k, v) ==
    IF HasKey(d, k)
    THEN [d EXCEPT ![KeyIndex(d, k)].packages = v]
    ELSE Append(d, [name |-> k, packages |-> v])

----------------------------------------------------------------------------
\* The Flatpak / AppStream objects handed to the searcher.

DESKTOP_APP == "desktop-application"
APP == "app"

\* ref.format_ref(): "kind/name/arch/branch"
format_ref(ref) == <<ref.kind, ref.name, ref.arch, ref.branch>>

\* inst.list_installed_refs_by_kind(kind)
list_installed_refs_by_kind(inst, kind) ==
    SelectSeq(inst.refs, LAMBDA ref : ref.kind = kind)

\* [ref.format_ref() for ref in inst.list_installed_refs_by_kind(Flatpak.RefKind.APP)]
installed_refs(inst) ==
    LET refs == list_installed_refs_by_kind(inst, APP)
    IN  [i \in DOMAIN refs |-> format_ref(refs[i])]

----------------------------------------------------------------------------
\* AppstreamSearcher._load_appstream_metadata

\* A plausible slip: the installed test dropped.
keeps_every_desktop_app(self_installed, component) ==
    component.kind = DESKTOP_APP

\* The two tests that guard packages.append in the loop over the components.
keeps(self_installed, component) ==
    /\ component.kind = DESKTOP_APP
    /\ component.bundle \notin Range(self_installed)

\* for i in range(components.get_size()): ...
RECURSIVE load_components(_, _, _, _)
load_components(self_installed, remote, i, packages) ==
    LET components == remote.appstream.components
    IN  IF i > Len(components)
        THEN packages
        ELSE load_components(self_installed, remote, i + 1,
                 IF keeps(self_installed, components[i])
                 THEN Append(packages, AppStreamPackage(components[i], remote))
                 ELSE packages)

\* A plausible slip: a missing file treated like an unreadable one.
load_missing_raises(self_installed, remote) ==
    IF remote.appstream.exists /\ remote.appstream.valid
    THEN [raised |-> "", packages |-> load_components(self_installed, remote, 1, <<>>)]
    ELSE [raised |-> "GLib.Error", packages |-> <<>>]

\* The result of one load: the packages, or the error parse_file raised.
load_appstream_metadata(self_installed, remote) ==
    IF remote.appstream.exists
    THEN IF remote.appstream.valid
         THEN [raised |-> "", packages |-> load_components(self_installed, remote, 1, <<>>)]
         ELSE [raised |-> "GLib.Error", packages |-> <<>>]
    ELSE [raised |-> "", packages |-> <<>>]

----------------------------------------------------------------------------
\* AppstreamSearcher.add_remote and add_installation.  `self` is the record
\* [remotes, installed, raised, loads]; loads records each load that ran.

LoadEvent(self, remote, result) ==
    [name |-> remote.name,
     appstream |-> remote.appstream,
     installed |-> self.installed,
     raised |-> result.raised]

\* A plausible slip: the membership test dropped, so a known name is loaded again.
add_remote_reloads(self, remote, inst) ==
    LET remote_name == remote.name
        ext == [self EXCEPT !.installed = @ \o installed_refs(inst)]
        result == load_appstream_metadata(ext.installed, remote)
        logged == [ext EXCEPT !.loads = Append(@, LoadEvent(ext, remote, result))]
    IN  IF result.raised # ""
        THEN [logged EXCEPT !.raised = result.raised]
        ELSE [logged EXCEPT !.remotes = Put(@, remote_name, result.packages)]

\* A plausible slip: the installed refs registered on the loading branch only.
add_remote_registers_when_new(self, remote, inst) ==
    LET remote_name == remote.name
    IN  IF ~ HasKey(self.remotes, remote_name)
        THEN LET ext == [self EXCEPT !.installed = @ \o installed_refs(inst)]
                 result == load_appstream_metadata(ext.installed, remote)
                 logged == [ext EXCEPT !.loads = Append(@, LoadEvent(ext, remote, result))]
             IN  IF result.raised # ""
                 THEN [logged EXCEPT !.raised = result.raised]
                 ELSE [logged EXCEPT !.remotes = Put(@, remote_name, result.packages)]
        ELSE self

\* AppstreamSearcher.add_remote
add_remote(self, remote, inst) ==
    LET remote_name == remote.name
        ext == [self EXCEPT !.installed = @ \o installed_refs(inst)]
    IN  IF ~ HasKey(ext.remotes, remote_name)
        THEN LET result == load_appstream_metadata(ext.installed, remote)
                 logged == [ext EXCEPT !.loads = Append(@, LoadEvent(ext, remote, result))]
             IN  IF result.raised # ""
                 THEN [logged EXCEPT !.raised = result.raised]
                 ELSE [logged EXCEPT !.remotes = Put(@, remote_name, result.packages)]
        ELSE ext

\* for remote in remotes: if not remote.get_disabled(): self.add_remote(remote, inst)
\* An exception raised by add_remote ends the loop.
RECURSIVE add_installation_loop(_, _, _)
add_installation_loop(self, inst, i) ==
    IF i > Len(inst.remotes) \/ self.raised # ""
    THEN self
    ELSE add_installation_loop(
             IF ~ inst.remotes[i].disabled
             THEN add_remote(self, inst.remotes[i], inst)
             ELSE self,
             inst, i + 1)

\* AppstreamSearcher.add_installation
add_installation(self, inst) == add_installation_loop(self, inst, 1)

----------------------------------------------------------------------------
\* AppstreamSearcher.search_flatpak_repo and search_flatpak.  A search result
\* holds references to the package objects of the index: [repo_name, index].

\* A plausible slip: the match kind stored for every scanned package.
scan_package_always_assigns(package, keyword) ==
    [package EXCEPT !.match = search(package, keyword)]

\* The body of the loop over the packages, as it leaves the package.
scan_package(package, keyword) ==
    LET found_ == search(package, keyword)
    IN  IF found_ # NONE
        THEN [package EXCEPT !.match = found_]
        ELSE package

\* for package in packages: ...
RECURSIVE scan_packages(_, _, _, _)
scan_packages(acc, keyword, repo_name, i) ==
    IF i > Len(acc.packages)
    THEN acc
    ELSE scan_packages(
             [packages |-> [acc.packages EXCEPT ![i] = scan_package(@, keyword)],
              search_results |->
                  IF search(acc.packages[i], keyword) # NONE
                  THEN Append(acc.search_results, [repo_name |-> repo_name, index |-> i])
                  ELSE acc.search_results],
             keyword, repo_name, i + 1)

\* A plausible slip: self.remotes.get(repo_name, []) in place of self.remotes[repo_name].
search_flatpak_repo_default_empty(self_remotes, keyword, repo_name) ==
    IF ~ HasKey(self_remotes, repo_name)
    THEN [raised |-> "", remotes |-> self_remotes, search_results |-> <<>>, scanned |-> <<>>]
    ELSE LET acc == scan_packages(
                        [packages |-> Lookup(self_remotes, repo_name), search_results |-> <<>>],
                        keyword, repo_name, 1)
         IN  [raised |-> "",
              remotes |-> Put(self_remotes, repo_name, acc.packages),
              search_results |-> acc.search_results,
              scanned |-> <<repo_name>>]

\* AppstreamSearcher.search_flatpak_repo; self.remotes[repo_name] raises KeyError
\* for a name that is not a key.
search_flatpak_repo(self_remotes, keyword, repo_name) ==
    IF ~ HasKey(self_remotes, repo_name)
    THEN [raised |-> "KeyError", remotes |-> self_remotes, search_results |-> <<>>,
          scanned |-> <<>>]
    ELSE LET acc == scan_packages(
                        [packages |-> Lookup(self_remotes, repo_name), search_results |-> <<>>],
                        keyword, repo_name, 1)
         IN  [raised |-> "",
              remotes |-> Put(self_remotes, repo_name, acc.packages),
              search_results |-> acc.search_results,
              scanned |-> <<repo_name>>]

\* for remote_name in self.remotes.keys(): ...
RECURSIVE search_all_remotes(_, _, _)
search_all_remotes(acc, keyword, i) ==
    IF i > Len(acc.remotes)
    THEN acc
    ELSE LET results == search_flatpak_repo(acc.remotes, keyword, acc.remotes[i].name)
         IN  search_all_remotes(
                 [raised |-> results.raised,
                  remotes |-> results.remotes,
                  search_results |-> acc.search_results \o results.search_results,
                  scanned |-> acc.scanned \o results.scanned],
                 keyword, i + 1)

\* A plausible slip: the repo_name argument ignored.
search_flatpak_everywhere(self_remotes, keyword, repo_name) ==
    search_all_remotes(
        [raised |-> "", remotes |-> self_remotes, search_results |-> <<>>, scanned |-> <<>>],
        lower(keyword), 1)

\* AppstreamSearcher.search_flatpak
search_flatpak(self_remotes, keyword, repo_name) ==
    IF Truthy(repo_name)
    THEN search_flatpak_repo(self_remotes, lower(keyword), repo_name)
    ELSE search_all_remotes(
             [raised |-> "", remotes |-> self_remotes, search_results |-> <<>>,
              scanned |-> <<>>],
             lower(keyword), 1)

----------------------------------------------------------------------------
\* The inputs: components, catalog files, remotes, installed refs, installations,
\* keywords.

cLutris ==
    [kind |-> DESKTOP_APP,
     id |-> <<"n", ".", "L", "u">>,
     name |-> <<"L", "u">>,
     summary |-> <<"g", "a", "n", ".">>,
     bundle |-> <<"app", "lu", "x86_64", "stable">>]

cGames ==
    [kind |-> DESKTOP_APP,
     id |-> <<"o", ".", "G", "a">>,
     name |-> <<"G", "a">>,
     summary |-> <<"N", ".", "x">>,
     bundle |-> <<"app", "ga", "x86_64", "stable">>]

cRuntime ==
    [kind |-> "runtime",
     id |-> <<"r", "t">>,
     name |-> <<"l", "u">>,
     summary |-> <<"g", "a">>,
     bundle |-> <<"runtime", "rt", "x86_64", "stable">>]

CatalogA == <<cLutris, cRuntime, cGames>>
CatalogB == <<cGames, cLutris>>

FileMissing == [exists |-> FALSE, valid |-> FALSE, components |-> <<>>]
FileCorrupt == [exists |-> TRUE, valid |-> FALSE, components |-> <<>>]
File(catalog) == [exists |-> TRUE, valid |-> TRUE, components |-> catalog]

Remote(name, disabled, appstream) ==
    [name |-> name, disabled |-> disabled, appstream |-> appstream]

FlathubRemotes == {Remote("flathub", FALSE, File(CatalogA))}
FedoraRemotes ==
    {Remote("fedora", FALSE, FileMissing),
     Remote("fedora", FALSE, FileCorrupt),
     Remote("fedora", FALSE, File(CatalogB)),
     Remote("fedora", TRUE, File(CatalogB))}

\* The remote lists of an installation: remote names are unique in an installation.
RemoteLists ==
    {<<>>}
    \cup {<<a>> : a \in FlathubRemotes}
    \cup {<<a, b>> : a \in FlathubRemotes, b \in FedoraRemotes}
    \cup {<<b, a>> : a \in FlathubRemotes, b \in FedoraRemotes}

Ref(kind, name, branch) == [kind |-> kind, name |-> name, arch |-> "x86_64", branch |-> branch]

RefLists ==
    {<<>>,
     <<Ref("runtime", "rt", "stable"), Ref(APP, "lu", "stable"), Ref(APP, "ga", "beta")>>}

Installations == [remotes : RemoteLists, refs : RefLists]

\* The remotes passed to add_remote directly.
DirectRemotes ==
    {Remote("flathub", FALSE, File(CatalogB)),
     Remote("fedora", FALSE, FileMissing)}

Keywords == {<<"L", "U">>, <<"g", "a">>, <<"n", ".">>}
RepoNames == {None, "", "flathub", "fedora"}

----------------------------------------------------------------------------
\* The calls.

Call(op, keyword, repo_name, known, inst) ==
    [op |-> op, keyword |-> keyword, repo_name |-> repo_name, known |-> known,
     remotes |-> inst.remotes, refs |-> installed_refs(inst)]

NoInst == [remotes |-> <<>>, refs |-> <<>>]

Self == [remotes |-> remotes, installed |-> installed, raised |-> "", loads |-> <<>>]

Init ==
    /\ remotes = <<>>
    /\ installed = <<>>
    /\ raised = ""
    /\ search_results = <<>>
    /\ found = NONE
    /\ lastCall = Call("__init__", <<>>, None, FALSE, NoInst)
    /\ loads = <<>>
    /\ seen = {}
    /\ history = <<>>
    /\ calls = 0

AddInstallation(inst) ==
    /\ calls < MaxCalls
    /\ LET self == add_installation(Self, inst)
       IN  /\ remotes' = self.remotes
           /\ installed' = self.installed
           /\ raised' = self.raised
           /\ loads' = self.loads
    /\ search_results' = <<>>
    /\ lastCall' = Call("add_installation", <<>>, None, FALSE, inst)
    /\ seen' = seen \cup Range(installed_refs(inst))
    /\ calls' = calls + 1
    /\ UNCHANGED <<found, history>>

AddRemote(remote, inst) ==
    /\ calls < MaxCalls
    /\ LET self == add_remote(Self, remote, inst)
       IN  /\ remotes' = self.remotes
           /\ installed' = self.installed
           /\ raised' = self.raised
           /\ loads' = self.loads
    /\ search_results' = <<>>
    /\ lastCall' = Call("add_remote", <<>>, remote.name, HasKey(remotes, remote.name),
                        [remotes |-> <<remote>>, refs |-> inst.refs])
    /\ seen' = seen \cup Range(installed_refs(inst))
    /\ calls' = calls + 1
    /\ UNCHANGED <<found, history>>

SearchFlatpak(keyword, repo_name) ==
    /\ calls < MaxCalls
    /\ LET results == search_flatpak(remotes, keyword, repo_name)
       IN  /\ remotes' = results.remotes
           /\ raised' = results.raised
           /\ search_results' = results.search_results
           /\ history' = IF results.raised = ""
                         THEN Append(history, [keyword |-> lower(keyword),
                                               scope |-> Range(results.scanned)])
                         ELSE history
    /\ lastCall' = Call("search_flatpak", keyword, repo_name, HasKey(remotes, repo_name), NoInst)
    /\ loads' = <<>>
    /\ calls' = calls + 1
    /\ UNCHANGED <<installed, found, seen>>

Next ==
    \/ \E inst \in Installations : AddInstallation(inst)
    \/ \E remote \in DirectRemotes, refs \in RefLists :
           AddRemote(remote, [remotes |-> <<remote>>, refs |-> refs])
    \/ \E keyword \in Keywords, repo_name \in RepoNames : SearchFlatpak(keyword, repo_name)

Spec == Init /\ [][Next]_vars

----------------------------------------------------------------------------
\* A second specification for AppStreamPackage.search alone: an index holding one
\* package whose name, id and summary are drawn from all short strings, and one
\* direct call of search with a keyword drawn likewise.

Alphabet == {"a", "b", "B"}
Strings(n) == UNION {[1..k -> Alphabet] : k \in 0..n}

InitSearch ==
    /\ \E name \in Strings(MaxFieldLen), id \in Strings(MaxFieldLen),
          summary \in Strings(MaxFieldLen) :
           remotes = <<[name |-> "flathub",
                        packages |-> <<AppStreamPackage(
                            [kind |-> DESKTOP_APP, id |-> id, name |-> name,
                             summary |-> summary,
                             bundle |-> <<"app", "x", "x86_64", "stable">>],
                            Remote("flathub", FALSE, FileMissing))>>]>>
    /\ installed = <<>>
    /\ raised = ""
    /\ search_results = <<>>
    /\ found = NONE
    /\ lastCall = Call("__init__", <<>>, None, FALSE, NoInst)
    /\ loads = <<>>
    /\ seen = {}
    /\ history = <<>>
    /\ calls = 0

PackageSearch(keyword) ==
    /\ calls = 0
    /\ found' = search(remotes[1].packages[1], keyword)
    /\ lastCall' = Call("search", keyword, None, FALSE, NoInst)
    /\ calls' = calls + 1
    /\ UNCHANGED <<remotes, installed, raised, search_results, loads, seen, history>>

NextSearch == \E keyword \in Strings(MaxKeywordLen) : PackageSearch(keyword)

SpecSearch == InitSearch /\ [][NextSearch]_vars

----------------------------------------------------------------------------
\* Helpers of the properties.

\* The classification of a component for a keyword, case by case.
SpecMatch(c, k) ==
    CASE In(k, lower(c.name)) -> NAME
      [] ~ In(k, lower(c.name)) /\ In(k, lower(c.id)) -> ID
      [] ~ In(k, lower(c.name)) /\ ~ In(k, lower(c.id)) /\ In(k, lower(c.summary)) -> SUMMARY
      [] OTHER -> NONE

\* The package a search result refers to.
Deref(r) == Lookup(remotes, r.repo_name)[r.index]

\* The components of a load's catalog that are desktop apps and not installed then.
NotInstalledApps(e) ==
    SelectSeq(e.appstream.components,
              LAMBDA c : c.kind = DESKTOP_APP
                         /\ ~ \E j \in DOMAIN e.installed : e.installed[j] = c.bundle)

ComponentsOf(packages) == [i \in DOMAIN packages |-> packages[i].component]

\* C1: every load that returned left, under its remote's name, exactly the
\* desktop-app components whose bundle id was not in self.installed at that
\* load, in catalog order, and none whose bundle id was in it.
C1_ExclusionAtLoad ==
    \A k \in DOMAIN loads :
        LET e == loads[k]
        IN  e.raised = "" =>
                /\ HasKey(remotes, e.name)
                /\ \A i \in DOMAIN Lookup(remotes, e.name) :
                       Lookup(remotes, e.name)[i].flatpak_bundle \notin Range(e.installed)
                /\ ComponentsOf(Lookup(remotes, e.name)) = NotInstalledApps(e)

C1_Witness ==
    \E k \in DOMAIN loads :
        /\ loads[k].raised = ""
        /\ \E i \in DOMAIN loads[k].appstream.components :
               /\ loads[k].appstream.components[i].kind = DESKTOP_APP
               /\ loads[k].appstream.components[i].bundle \in Range(loads[k].installed)
        /\ Lookup(remotes, loads[k].name) # <<>>

\* C2: add_remote with a name that is already a key leaves the mapping as it
\* was (same keys, same lists, same order) and runs no load, whatever catalog
\* the remote now has and whatever refs the installation now lists.
C2_IdempotentLoad ==
    [][(lastCall'.op = "add_remote" /\ HasKey(remotes, lastCall'.repo_name))
          => (remotes' = remotes /\ loads' = <<>> /\ raised' = "")]_vars

C2_Witness ==
    /\ lastCall.op = "add_remote"
    /\ lastCall.known
    /\ load_components(installed, lastCall.remotes[1], 1, <<>>)
           # Lookup(remotes, lastCall.repo_name)

\* C3: search reports NAME when the keyword is in the lower-cased name, else ID
\* when it is in the lower-cased id, else SUMMARY when it is in the lower-cased
\* summary, else NONE: exactly one kind, the first in that order.
C3_MatchPriority ==
    lastCall.op = "search" =>
        LET c == remotes[1].packages[1].component
            k == lastCall.keyword
            inName == In(k, lower(c.name))
            inId == In(k, lower(c.id))
            inSummary == In(k, lower(c.summary))
        IN  /\ found \in {NAME, ID, SUMMARY, NONE}
            /\ (found = NAME) <=> inName
            /\ (found = ID) <=> (~ inName /\ inId)
            /\ (found = SUMMARY) <=> (~ inName /\ ~ inId /\ inSummary)
            /\ (found = NONE) <=> (~ inName /\ ~ inId /\ ~ inSummary)

C3_Witness ==
    /\ lastCall.op = "search"
    /\ lastCall.keyword # <<>>
    /\ found = ID
    /\ In(lastCall.keyword, lower(remotes[1].packages[1].component.summary))

\* C4: a search scoped to a loaded repository returns exactly that repository's
\* matching packages in load order; a search without a repository returns every
\* repository's matching packages, repositories in insertion order and each
\* repository's matches in load order, no package twice.
C4_ScopedAndGlobalSearch ==
    (/\ lastCall.op = "search_flatpak"
     /\ lastCall.repo_name = None \/ (lastCall.repo_name # "" /\ lastCall.known))
    =>
        LET kw == lower(lastCall.keyword)
            scope == IF lastCall.repo_name = None THEN Keys(remotes) ELSE {lastCall.repo_name}
        IN  /\ raised = ""
            /\ \A r \in Range(search_results) :
                   /\ r.repo_name \in scope
                   /\ r.index \in DOMAIN Lookup(remotes, r.repo_name)
                   /\ Deref(r).repo_name = r.repo_name
                   /\ SpecMatch(Deref(r).component, kw) # NONE
            /\ \A n \in scope : \A i \in DOMAIN Lookup(remotes, n) :
                   SpecMatch(Lookup(remotes, n)[i].component, kw) # NONE
                       => [repo_name |-> n, index |-> i] \in Range(search_results)
            /\ \A a, b \in DOMAIN search_results :
                   a < b =>
                       \/ KeyIndex(remotes, search_results[a].repo_name)
                              < KeyIndex(remotes, search_results[b].repo_name)
                       \/ /\ search_results[a].repo_name = search_results[b].repo_name
                          /\ search_results[a].index < search_results[b].index

C4_Witness ==
    /\ lastCall.op = "search_flatpak"
    /\ lastCall.repo_name = None
    /\ \E a, b \in DOMAIN search_results :
           search_results[a].repo_name # search_results[b].repo_name
    /\ \E n \in Keys(remotes) : \E i \in DOMAIN Lookup(remotes, n) :
           [repo_name |-> n, index |-> i] \notin Range(search_results)

\* C5 as stated: a search with any repository name that is not a key, the empty
\* string included, fails with a lookup error, returns nothing and changes no
\* match kind.
C5_UnknownRepositoryAnyString ==
    [][(/\ lastCall'.op = "search_flatpak"
        /\ lastCall'.repo_name # None
        /\ ~ HasKey(remotes, lastCall'.repo_name))
          => (raised' = "KeyError" /\ search_results' = <<>> /\ remotes' = remotes)]_vars

\* C5 amended: a search with a non-empty repository name that is not a key fails
\* with a lookup error, returns nothing and changes no match kind.
C5_UnknownRepository ==
    [][(/\ lastCall'.op = "search_flatpak"
        /\ lastCall'.repo_name # None
        /\ lastCall'.repo_name # ""
        /\ ~ HasKey(remotes, lastCall'.repo_name))
          => (raised' = "KeyError" /\ search_results' = <<>> /\ remotes' = remotes)]_vars

C5_Witness ==
    /\ lastCall.op = "search_flatpak"
    /\ lastCall.repo_name = "fedora"
    /\ ~ lastCall.known
    /\ raised = "KeyError"
    /\ \E n \in Keys(remotes) : \E i \in DOMAIN Lookup(remotes, n) :
           SpecMatch(Lookup(remotes, n)[i].component, lower(lastCall.keyword)) # NONE

\* C6 as stated: after add_installation, every enabled remote of the
\* installation whose catalog file is not unreadable is loaded in the index,
\* also when the file of another remote of the installation failed to parse,
\* and no remote is left in the index by a load that failed.
C6_ParseFailureIsolated ==
    lastCall.op = "add_installation" =>
        /\ \A i \in DOMAIN lastCall.remotes :
               LET r == lastCall.remotes[i]
               IN  (~ r.disabled /\ ~ (r.appstream.exists /\ ~ r.appstream.valid))
                       => HasKey(remotes, r.name)
        /\ \A k \in DOMAIN loads : loads[k].raised # "" => ~ HasKey(remotes, loads[k].name)

\* C7: a load that finds no catalog file raises nothing and leaves an empty list
\* under the remote's name, a scoped search of an empty list returns an empty
\* list without error, and every load of the same call that found a readable
\* file left all the non-installed desktop apps of its catalog.
C7_EmptyCatalogTolerance ==
    /\ \A k \in DOMAIN loads :
           ~ loads[k].appstream.exists =>
               /\ loads[k].raised = ""
               /\ HasKey(remotes, loads[k].name)
               /\ Lookup(remotes, loads[k].name) = <<>>
    /\ (\A k \in DOMAIN loads : ~ (loads[k].appstream.exists /\ ~ loads[k].appstream.valid))
           => raised # "GLib.Error"
    /\ \A k \in DOMAIN loads :
           (loads[k].appstream.exists /\ loads[k].appstream.valid) =>
               /\ HasKey(remotes, loads[k].name)
               /\ ComponentsOf(Lookup(remotes, loads[k].name)) = NotInstalledApps(loads[k])
    /\ (/\ lastCall.op = "search_flatpak"
        /\ Truthy(lastCall.repo_name)
        /\ HasKey(remotes, lastCall.repo_name)
        /\ Lookup(remotes, lastCall.repo_name) = <<>>)
           => (raised = "" /\ search_results = <<>>)

C7_Witness ==
    \E j, k \in DOMAIN loads :
        /\ j < k
        /\ ~ loads[j].appstream.exists
        /\ Lookup(remotes, loads[j].name) = <<>>
        /\ loads[k].appstream.exists /\ loads[k].appstream.valid
        /\ Lookup(remotes, loads[k].name) # <<>>

\* C8 as stated: add_remote with a name that is already a key leaves the
\* mapping, every package and the installed collection as they were.
C8_KnownNameChangesNothing ==
    [][(lastCall'.op = "add_remote" /\ HasKey(remotes, lastCall'.repo_name))
          => (remotes' = remotes /\ installed' = installed)]_vars

\* C8 amended: add_remote with a name that is already a key leaves the mapping
\* and every package as they were, and appends the formatted refs of the
\* installation's installed apps to the installed collection.
C8_KnownNameOnlyExtendsInstalled ==
    [][(lastCall'.op = "add_remote" /\ HasKey(remotes, lastCall'.repo_name))
          => (remotes' = remotes /\ installed' = installed \o lastCall'.refs)]_vars

C8_Witness ==
    /\ lastCall.op = "add_remote"
    /\ lastCall.known
    /\ lastCall.refs # <<>>
    /\ Len(installed) > Len(lastCall.refs)

\* C9: every package's match is the classification given by the most recent
\* search that scanned it and matched it, NONE exactly when no search so far
\* matched it; every package a search returns carries that search's
\* classification, never NONE.
C9_MatchKindTracksLastMatchingSearch ==
    /\ \A d \in DOMAIN remotes : \A i \in DOMAIN remotes[d].packages :
           LET package == remotes[d].packages[i]
               hits == {h \in DOMAIN history :
                            /\ remotes[d].name \in history[h].scope
                            /\ SpecMatch(package.component, history[h].keyword) # NONE}
           IN  IF hits = {}
               THEN package.match = NONE
               ELSE LET last == CHOOSE h \in hits : \A g \in hits : g <= h
                    IN  /\ package.match = SpecMatch(package.component, history[last].keyword)
                        /\ package.match # NONE
    /\ lastCall.op = "search_flatpak" =>
           \A r \in Range(search_results) :
               /\ Deref(r).match = SpecMatch(Deref(r).component, lower(lastCall.keyword))
               /\ Deref(r).match # NONE

C9_Witness ==
    /\ lastCall.op = "search_flatpak"
    /\ Len(history) >= 2
    /\ \E d \in DOMAIN remotes : \E i \in DOMAIN remotes[d].packages :
           /\ remotes[d].name \in history[Len(history)].scope
           /\ SpecMatch(remotes[d].packages[i].component, history[Len(history)].keyword) = NONE
           /\ remotes[d].packages[i].match # NONE

\* C10 as stated: at every load, self.installed holds the formatted ref of every
\* installed app of the installation being added and of every installation
\* passed in earlier.
C10_InstalledPrecedesEveryLoad ==
    \A k \in DOMAIN loads : seen \subseteq Range(loads[k].installed)

====
